---- MODULE Spec2Model ----
(***************************************************************************)
(* coin-data (src/src/main.rs): the driver loop of main, the reduction of  *)
(* a price series by get_coin_info and the gauge of draw_bar_graph.        *)
(*                                                                         *)
(* f64 values are records [k, v]:                                          *)
(*   k = "fin"  a finite value, v an integer (prices are integral here, so *)
(*              sums and differences of them are exact in f64)             *)
(*   k = "huge" v = -1 is f64::MIN (the most negative FINITE f64),         *)
(*              v = 1 is f64::MAX                                          *)
(*   k = "inf"  v = -1 is -infinity, v = 1 is +infinity                    *)
(*   k = "nan"  NaN                                                        *)
(***************************************************************************)
EXTENDS Integers, Sequences, FiniteSets, TLC

VARIABLES pc, coin_list, idx, coin_data, coin_info, out

vars == <<pc, coin_list, idx, coin_data, coin_info, out>>

(***************************** bounds **************************************)
\* longest series get_coin_info is applied to on its own
MaxLen == 3
\* longest series a history fetch of the driver loop delivers
MaxHistory == 2
\* longest asset list get_coins delivers
MaxCoins == 2

(***************************** f64 *****************************************)
Fin(n) == [k |-> "fin", v |-> n]
NaN == [k |-> "nan", v |-> 0]
INFINITY == [k |-> "inf", v |-> 1]
NEG_INFINITY == [k |-> "inf", v |-> -1]
F64_MAX == [k |-> "huge", v |-> 1]
F64_MIN == [k |-> "huge", v |-> -1]

IsNaN(x) == x.k = "nan"

\* position of a non-NaN value on the extended real line
Tier(x) == CASE x.k = "inf" -> 2 * x.v
             [] x.k = "huge" -> x.v
             [] OTHER -> 0

\* IEEE comparison: false whenever an operand is NaN
FLt(a, b) ==
    /\ ~IsNaN(a)
    /\ ~IsNaN(b)
    /\ \/ Tier(a) < Tier(b)
       \/ Tier(a) = 0 /\ Tier(b) = 0 /\ a.v < b.v

FEq(a, b) == ~IsNaN(a) /\ ~IsNaN(b) /\ a = b

FLe(a, b) == FLt(a, b) \/ FEq(a, b)

\* f64::max and f64::min: a NaN operand is ignored
FMax(a, b) == IF IsNaN(b) THEN a ELSE IF IsNaN(a) THEN b
              ELSE IF FLt(a, b) THEN b ELSE a

FMin(a, b) == IF IsNaN(b) THEN a ELSE IF IsNaN(a) THEN b
              ELSE IF FLt(b, a) THEN b ELSE a

FNeg(x) == IF IsNaN(x) THEN x ELSE [k |-> x.k, v |-> -x.v]

(***************************** parsing *************************************)
\* the decimal numerals of the model and their values
Numerals == ("1" :> 1) @@ ("2" :> 2) @@ ("4" :> 4)

\* strings str::parse::<f64> rejects
Unparsable == {"n/a"}

\* the priceUsd strings a sample may carry
PriceStrings == DOMAIN Numerals \cup {"NaN", "inf", "-inf"} \cup Unparsable

\* the sample timestamps of the model
Times == {1356998400, 1357084800}

Ok(x) == [ok |-> TRUE, val |-> x]
Err(e) == [ok |-> FALSE, val |-> e]

\* str::parse::<f64>: decimal numerals, and the spellings of NaN and the
\* infinities, parse; anything else is an error
parse_f64(s) ==
    IF s \in DOMAIN Numerals THEN Ok(Fin(Numerals[s]))
    ELSE IF s = "NaN" THEN Ok(NaN)
    ELSE IF s = "inf" THEN Ok(INFINITY)
    ELSE IF s = "-inf" THEN Ok(NEG_INFINITY)
    ELSE Err("invalid float literal")

PriceData == [priceUsd : PriceStrings, time : Times]

RECURSIVE SeqsUpTo(_, _)
SeqsUpTo(S, n) ==
    IF n = 0 THEN {<<>>}
    ELSE LET shorter == SeqsUpTo(S, n - 1)
         IN shorter \cup {Append(s, x) : s \in {t \in shorter : Len(t) = n - 1}, x \in S}

(***************************** get_coin_info *******************************)
\* prices.iter().filter_map(|x| x.priceUsd.parse::<f64>().ok())
RECURSIVE filter_map_parse(_)
filter_map_parse(prices) ==
    IF prices = <<>> THEN <<>>
    ELSE LET r == parse_f64(Head(prices).priceUsd)
             rest == filter_map_parse(Tail(prices))
         IN IF r.ok THEN <<r.val>> \o rest ELSE rest

\* .fold(init, |acc, x| acc.max(x))
RECURSIVE fold_max(_, _)
fold_max(xs, acc) ==
    IF xs = <<>> THEN acc ELSE fold_max(Tail(xs), FMax(acc, Head(xs)))

\* .fold(init, |acc, x| acc.min(x))
RECURSIVE fold_min(_, _)
fold_min(xs, acc) ==
    IF xs = <<>> THEN acc ELSE fold_min(Tail(xs), FMin(acc, Head(xs)))

\* a fold for the maximum that starts from 0.0
HighInitZero == Fin(0)

\* the initial accumulators of the two folds
HighInit == F64_MIN
LowInit == INFINITY

all_time_high(prices) == fold_max(filter_map_parse(prices), HighInit)

all_time_low(prices) == fold_min(filter_map_parse(prices), LowInit)

\* the strict check replaced by the lenient policy of the folds: the last
\* price that parses
current_price_lenient(prices) ==
    LET parsed == filter_map_parse(prices)
    IN IF parsed = <<>> THEN Ok(Fin(0)) ELSE Ok(parsed[Len(parsed)])

\* the running maximum taken for the current price
current_price_max(prices) ==
    IF prices = <<>> THEN Ok(Fin(0))
    ELSE IF filter_map_parse(prices) = <<>> THEN Err("Failed to parse priceUsd")
    ELSE Ok(all_time_high(prices))

\* match prices.last() { Some(p) => p.priceUsd.parse().map_err(..), None => Ok(0.0) }
current_price(prices) ==
    IF prices = <<>> THEN Ok(Fin(0))
    ELSE LET r == parse_f64(prices[Len(prices)].priceUsd)
         IN IF r.ok THEN r ELSE Err("Failed to parse priceUsd")

get_coin_info(prices, name) ==
    LET cur == current_price(prices)
    IN IF ~cur.ok THEN cur
       ELSE Ok([name |-> name,
                all_time_high |-> all_time_high(prices),
                all_time_low |-> all_time_low(prices),
                current_price |-> cur.val])

(***************************** f64 arithmetic ******************************)
\* a - b
FSub(a, b) ==
    IF IsNaN(a) \/ IsNaN(b) THEN NaN
    ELSE IF a.k = "inf" THEN (IF b.k = "inf" /\ b.v = a.v THEN NaN ELSE a)
    ELSE IF b.k = "inf" THEN FNeg(b)
    ELSE IF a.k = "huge" THEN
        (IF b.k = "huge"
         THEN (IF b.v = a.v THEN Fin(0) ELSE [k |-> "inf", v |-> a.v])
         ELSE a)
    ELSE IF b.k = "huge" THEN FNeg(b)
    ELSE Fin(a.v - b.v)

\* x * 100.0: f64::MAX * 100 overflows to infinity
FTimes100(x) ==
    IF x.k = "huge" THEN [k |-> "inf", v |-> x.v]
    ELSE IF x.k = "fin" THEN Fin(100 * x.v)
    ELSE x

Abs(n) == IF n < 0 THEN -n ELSE n

\* the sign bit of a non-NaN value; the zeros that arise here are +0.0
SignBit(x) == x.v < 0

\* n / d. The quotient is kept exact, as a sign and a fraction num/den; a
\* finite value over f64::MAX or over an infinity is below every rounding
\* step of the formatting that follows and is kept as a signed zero. Over a
\* zero, 0/0 is NaN and anything else an infinity.
FDiv(n, d) ==
    IF IsNaN(n) \/ IsNaN(d) THEN [k |-> "nan"]
    ELSE IF d = Fin(0) THEN
        (IF n = Fin(0) THEN [k |-> "nan"] ELSE [k |-> "inf", neg |-> SignBit(n)])
    ELSE IF n.k = "inf" THEN
        (IF d.k = "inf" THEN [k |-> "nan"]
         ELSE [k |-> "inf", neg |-> (SignBit(n) # SignBit(d))])
    ELSE IF n.k = "huge" THEN
        (IF d.k = "inf" THEN [k |-> "ratio", neg |-> (SignBit(n) # SignBit(d)), num |-> 0, den |-> 1]
         ELSE IF d.k = "huge" THEN [k |-> "ratio", neg |-> (SignBit(n) # SignBit(d)), num |-> 1, den |-> 1]
         ELSE [k |-> "inf", neg |-> (SignBit(n) # SignBit(d))])
    ELSE IF d.k \in {"inf", "huge"} THEN
        [k |-> "ratio", neg |-> (SignBit(n) # SignBit(d)), num |-> 0, den |-> 1]
    ELSE [k |-> "ratio", neg |-> (SignBit(n) # SignBit(d)),
          num |-> Abs(n.v), den |-> Abs(d.v)]

(***************************** formatting **********************************)
\* how an inexact tie falls: a quotient whose exact value ends in ...5 at the
\* third decimal and is no binary fraction is stored slightly above or below
\* it, and the digits follow the stored value
Ties == {"below", "above"}

\* |p| in hundredths, rounded as format!("{:.2}", p) rounds the stored value:
\* to nearest, an exactly stored tie to even
RoundHundredths(num, den, tie) ==
    LET q == (num * 100) \div den
        r == (num * 100) % den
    IN IF 2 * r < den THEN q
       ELSE IF 2 * r > den THEN q + 1
       ELSE IF (2 * q + 1) % 25 = 0 THEN (IF q % 2 = 0 THEN q ELSE q + 1)
       ELSE IF tie = "above" THEN q + 1 ELSE q

\* format!("{:.2}", percentage): the text, as its parts
format_2(p, tie) ==
    IF p.k = "nan" THEN [text |-> "NaN"]
    ELSE IF p.k = "inf" THEN [text |-> IF p.neg THEN "-inf" ELSE "inf"]
    ELSE LET h == RoundHundredths(p.num, p.den, tie)
         IN [text |-> "decimal", minus |-> p.neg,
             whole |-> h \div 100, frac |-> h % 100]

\* formatted_percentage.parse::<f64>().unwrap(): the value of the text, in
\* hundredths; "-0.00" parses to -0.0
parse_formatted(t) ==
    IF t.text = "NaN" THEN [k |-> "nan"]
    ELSE IF t.text = "inf" THEN [k |-> "inf", neg |-> FALSE]
    ELSE IF t.text = "-inf" THEN [k |-> "inf", neg |-> TRUE]
    ELSE [k |-> "fin", neg |-> t.minus, h |-> 100 * t.whole + t.frac]

\* (0.0..=100.0).contains(&x): 0.0 <= x && x <= 100.0
contains_0_100(x) ==
    /\ x.k = "fin"
    /\ \/ x.h = 0
       \/ ~x.neg /\ x.h <= 10000

\* x as i32, for the finite x the range check lets through: truncation
as_i32(x) == IF x.neg THEN -(x.h \div 100) ELSE x.h \div 100

\* i32 division truncates toward zero
IDiv(a, b) == IF a >= 0 THEN a \div b ELSE -((-a) \div b)

\* the two decimals of the first formatting kept in the line
display_fixed2(x) ==
    LET w == ToString(x.h \div 100)
        f == x.h % 100
        digits == IF f < 10 THEN w \o ".0" \o ToString(f) ELSE w \o "." \o ToString(f)
    IN IF x.neg THEN "-" \o digits ELSE digits

\* Display of an f64 with at most two decimals: the shortest text that
\* parses back to it
display(x) ==
    LET w == ToString(x.h \div 100)
        f == x.h % 100
        digits == IF f = 0 THEN w
                  ELSE IF f % 10 = 0 THEN w \o "." \o ToString(f \div 10)
                  ELSE IF f < 10 THEN w \o ".0" \o ToString(f)
                  ELSE w \o "." \o ToString(f)
    IN IF x.neg THEN "-" \o digits ELSE digits

\* format!("{:>10}", ..): right-aligned in a field of 10
FieldWidth == 10

RECURSIVE Spaces(_)
Spaces(n) == IF n <= 0 THEN "" ELSE " " \o Spaces(n - 1)

pad_left(s, width) == Spaces(width - Len(s)) \o s

(***************************** draw_bar_graph ******************************)
BarWidth == 50

\* the raw quotient, as a value in hundredths (rounded away from zero, so
\* that a comparison with 0 and with 100 reads the raw value)
raw_value(p) ==
    IF p.k = "ratio"
    THEN [k |-> "fin", neg |-> p.neg /\ p.num > 0,
          h |-> (p.num * 100 + p.den - 1) \div p.den]
    ELSE p

\* the bar length taken from the raw quotient
bar_of_raw(percentage, formatted_percentage) ==
    IDiv(as_i32([k |-> "fin", neg |-> percentage.neg,
                 h |-> (percentage.num * 100) \div percentage.den]), 2)

\* the bar length: (formatted_percentage as i32) / 2
bar_of(percentage, formatted_percentage) == IDiv(as_i32(formatted_percentage), 2)

\* the range check made on the raw quotient
checked_value_raw(percentage, formatted_percentage) == raw_value(percentage)

\* the value the range check of line 97 reads
checked_value(percentage, formatted_percentage) == formatted_percentage

\* the guard written as range < 0.0
range_is_negative(range) == FLt(range, Fin(0))

\* range == 0.0
range_is_zero(range) == FEq(range, Fin(0))

\* let x = v: v is evaluated once and F applied to its value
Let(v, F(_)) == CHOOSE y \in {F(x) : x \in {v}} : TRUE

\* what draw_bar_graph prints, as a record: kind is the branch taken
draw_bar_graph(upper, lower, current, symbol, tie) ==
    Let(FSub(upper, lower), LAMBDA range :
      IF range_is_zero(range)
      THEN [kind |-> "DegenerateRange", symbol |-> symbol,
            message |-> "Upper and lower value are the same."]
      ELSE
        Let(FDiv(FTimes100(FSub(current, lower)), range), LAMBDA percentage :
        Let(parse_formatted(format_2(percentage, tie)), LAMBDA formatted_percentage :
          IF ~contains_0_100(checked_value(percentage, formatted_percentage))
          THEN [kind |-> "OutOfBounds", symbol |-> symbol,
                message |-> "Current value is not within the specified range.",
                percentage |-> percentage,
                formatted_percentage |-> formatted_percentage]
          ELSE
            Let(bar_of(percentage, formatted_percentage), LAMBDA bar :
            Let(BarWidth - bar, LAMBDA padding :
              [kind |-> "Rendered", symbol |-> symbol,
               percentage |-> percentage,
               formatted_percentage |-> formatted_percentage,
               text |-> pad_left(display(formatted_percentage), FieldWidth) \o "%",
               bar |-> bar, padding |-> padding])))))

(***************************** main ****************************************)
\* the ids an asset list may carry, in the order get_coins delivers them
CoinIds == <<"bitcoin", "ethereum", "tether", "xrp">>

\* the asset lists get_coins may deliver
CoinLists == {SubSeq(CoinIds, 1, n) : n \in 0..MaxCoins}

\* the series a history fetch of the driver loop may deliver
HistoryPrices == {"1", "4", "n/a"}
Histories ==
    SeqsUpTo([priceUsd : HistoryPrices, time : {1356998400}], MaxHistory)

\* no value yet: the local is not bound
Unbound == [ok |-> FALSE, val |-> "unbound"]

\* println!("Error: {}", e)
error_line(symbol, e) == [kind |-> "Error", symbol |-> symbol, message |-> e]

\* an Err arm that ends the run (a return, or ? in place of the match)
after_error_abort == "done"

\* where the loop goes after an asset's Err arm: on to the next asset
after_error == "for"

Init ==
    /\ pc = "get_coins"
    /\ coin_list = <<>>
    /\ idx = 0
    /\ coin_data = Unbound
    /\ coin_info = Unbound
    /\ out = <<>>

\* let coin_list = get_coins(API_URL).await; match coin_list { .. }
GetCoins ==
    /\ pc = "get_coins"
    /\ \/ \E list \in CoinLists :
            /\ coin_list' = list
            /\ idx' = 1
            /\ pc' = "for"
            /\ out' = out
       \/ /\ out' = Append(out, error_line("", "get_coins"))
          /\ pc' = "done"
          /\ UNCHANGED <<coin_list, idx>>
    /\ UNCHANGED <<coin_data, coin_info>>

\* for coin in coin_list.data: the next asset, or the end of the list; the
\* locals of the previous iteration are gone
ForNext ==
    /\ pc = "for"
    /\ pc' = IF idx <= Len(coin_list) THEN "get_coin_data" ELSE "done"
    /\ coin_data' = Unbound
    /\ coin_info' = Unbound
    /\ UNCHANGED <<coin_list, idx, out>>

\* let coin_data = get_coin_data(API_URL, &coin.id, "d1").await; match ..
GetCoinData ==
    /\ pc = "get_coin_data"
    /\ \/ \E data \in Histories :
            /\ coin_data' = Ok(data)
            /\ pc' = "get_coin_info"
            /\ UNCHANGED <<idx, out>>
       \/ /\ coin_data' = Err("reqwest::Error")
          /\ out' = Append(out, error_line(coin_list[idx], "reqwest::Error"))
          /\ idx' = idx + 1
          /\ pc' = after_error
    /\ UNCHANGED <<coin_list, coin_info>>

\* let coin_info = get_coin_info(data, &coin.id).await
GetCoinInfo ==
    /\ pc = "get_coin_info"
    /\ coin_info' = get_coin_info(coin_data.val, coin_list[idx])
    /\ pc' = "match_coin_info"
    /\ UNCHANGED <<coin_list, idx, coin_data, out>>

\* match coin_info { Err(e) => println!("Error: {}", e), .. }
PrintInfoError ==
    /\ pc = "match_coin_info"
    /\ ~coin_info.ok
    /\ out' = Append(out, error_line(coin_list[idx], coin_info.val))
    /\ idx' = idx + 1
    /\ pc' = after_error
    /\ UNCHANGED <<coin_list, coin_data, coin_info>>

\* match coin_info { Ok(data) => draw_bar_graph(upper, lower, current, name), .. }
DrawBarGraph ==
    /\ pc = "match_coin_info"
    /\ coin_info.ok
    /\ \E tie \in Ties :
          out' = Append(out, draw_bar_graph(coin_info.val.all_time_high,
                                            coin_info.val.all_time_low,
                                            coin_info.val.current_price,
                                            coin_info.val.name, tie))
    /\ idx' = idx + 1
    /\ pc' = "for"
    /\ UNCHANGED <<coin_list, coin_data, coin_info>>

Next ==
    \/ GetCoins
    \/ ForNext
    \/ GetCoinData
    \/ GetCoinInfo
    \/ PrintInfoError
    \/ DrawBarGraph

Spec == Init /\ [][Next]_vars

\* main runs on one task and every await of it resolves (to Ok or to Err)
FairSpec == Spec /\ WF_vars(Next)

(***************************** get_coin_info alone *************************)
Series == SeqsUpTo(PriceData, MaxLen)

InitInfo ==
    /\ pc = "get_coin_info"
    /\ coin_list = <<"bitcoin">>
    /\ idx = 1
    /\ coin_data \in {Ok(data) : data \in Series}
    /\ coin_info = Unbound
    /\ out = <<>>

NextInfo == GetCoinInfo

SpecInfo == InitInfo /\ [][NextInfo]_vars

(***************************** draw_bar_graph alone ************************)
\* the finite arguments of the model
DrawInts == {-1, 0, 1, 2, 3, 8, 50, 100, 800, 10000, 15000, 20000, 24999, 25000, 25001}

DrawValues == {Fin(n) : n \in DrawInts}
                \cup {NaN, INFINITY, NEG_INFINITY, F64_MIN, F64_MAX}

InitDraw ==
    /\ pc = "match_coin_info"
    /\ coin_list = <<"bitcoin">>
    /\ idx = 1
    /\ coin_data = Unbound
    /\ coin_info \in {Ok([name |-> "bitcoin", all_time_high |-> u,
                          all_time_low |-> l, current_price |-> c]) :
                        u \in DrawValues, l \in DrawValues, c \in DrawValues}
    /\ out = <<>>

NextDraw == DrawBarGraph

SpecDraw == InitDraw /\ [][NextDraw]_vars

(***************************** properties: get_coin_info *******************)
\* get_coin_info has returned
Returned == pc = "match_coin_info" /\ coin_data.ok

series == IF coin_data.ok THEN coin_data.val ELSE <<>>

Parses(sample) == parse_f64(sample.priceUsd).ok

\* the samples of a series that parse to a number (NaN is not one)
Numbers(prices) ==
    {parse_f64(prices[i].priceUsd).val :
        i \in {j \in 1..Len(prices) :
                 /\ Parses(prices[j])
                 /\ ~IsNaN(parse_f64(prices[j].priceUsd).val)}}

IsMaxOf(x, S) == x \in S /\ \A y \in S : FLe(y, x)
IsMinOf(x, S) == x \in S /\ \A y \in S : FLe(x, y)

RemoveAt(prices, i) == SubSeq(prices, 1, i - 1) \o SubSeq(prices, i + 1, Len(prices))

LastParses(prices) == prices # <<>> /\ Parses(prices[Len(prices)])

\* C1: whenever get_coin_info succeeds on a series with a price that parses
\* to a number, all_time_high is the maximum and all_time_low the minimum of
\* the prices that parse; and a sample that does not parse and is not the
\* last one can be removed without changing the result, which is a success
\* or a failure as the last sample alone decides.
C1_HighLowOverParsable ==
    Returned =>
      /\ (coin_info.ok /\ Numbers(series) # {}) =>
            /\ IsMaxOf(coin_info.val.all_time_high, Numbers(series))
            /\ IsMinOf(coin_info.val.all_time_low, Numbers(series))
      /\ \A i \in 1..(Len(series) - 1) :
            ~Parses(series[i]) =>
                get_coin_info(RemoveAt(series, i), coin_list[idx]) = coin_info

\* C2: get_coin_info fails exactly when the series is non-empty and its last
\* price does not parse; a failure carries the error message alone, and no
\* CoinInfo.
C2_LastUnparsableFails ==
    Returned =>
      /\ coin_info.ok <=> (series = <<>> \/ LastParses(series))
      /\ ~coin_info.ok => coin_info = Err("Failed to parse priceUsd")

\* a failure on a series whose other samples all parse
C2_Witness ==
    /\ Returned
    /\ ~coin_info.ok
    /\ Len(series) = 3
    /\ Parses(series[1])
    /\ Parses(series[2])

\* C3: on success current_price is the parsed price of the last sample of the
\* series as delivered, and 0.0 for the empty series.
C3_CurrentIsLast ==
    (Returned /\ coin_info.ok) =>
        coin_info.val.current_price =
            IF series = <<>> THEN Fin(0)
            ELSE parse_f64(series[Len(series)].priceUsd).val

\* a success where the last sample is neither the highest nor the latest by
\* its timestamp, and the first sample does not parse
C3_Witness ==
    /\ Returned
    /\ coin_info.ok
    /\ Len(series) = 3
    /\ ~Parses(series[1])
    /\ series[3].time < series[2].time
    /\ FLt(coin_info.val.current_price, coin_info.val.all_time_high)

\* C4: low <= current <= high is not guaranteed: on the empty series
\* get_coin_info succeeds with current_price > all_time_high.
C4_CurrentAboveHigh ==
    (Returned /\ series = <<>>) =>
        /\ coin_info.ok
        /\ FLt(coin_info.val.all_time_high, coin_info.val.current_price)

\* a success that breaks the bound
C4_Witness ==
    /\ Returned
    /\ coin_info.ok
    /\ FLt(coin_info.val.all_time_high, coin_info.val.current_price)

\* C5: for the empty series get_coin_info succeeds with current = 0.0, high
\* the most negative and low the most positive value of one range, each the
\* negation of the other.
C5_EmptySeriesSentinels ==
    (Returned /\ series = <<>>) =>
        /\ coin_info.ok
        /\ coin_info.val.current_price = Fin(0)
        /\ coin_info.val.all_time_high \in {F64_MIN, NEG_INFINITY}
        /\ coin_info.val.all_time_low \in {F64_MAX, INFINITY}
        /\ coin_info.val.all_time_high = FNeg(coin_info.val.all_time_low)

(***************************** properties: draw_bar_graph ******************)
\* draw_bar_graph has returned from the call made on coin_info
Drawn == pc = "for" /\ Len(out) = 1 /\ coin_info.ok

upper == coin_info.val.all_time_high
lower == coin_info.val.all_time_low
current == coin_info.val.current_price

\* what the call printed
line == out[1]

IsFinite(x) == x.k \in {"fin", "huge"}

\* the degenerate outcome: the fixed message, no bar, no quotient taken
Degenerate(l) ==
    /\ l.kind = "DegenerateRange"
    /\ l.message = "Upper and lower value are the same."
    /\ DOMAIN l = {"kind", "symbol", "message"}

\* C6, as claimed: every call with high == low ends in DegenerateRange.
C6_EqualIsDegenerate ==
    (Drawn /\ FEq(upper, lower)) => Degenerate(line)

\* C6, amended: every call with high == low and both finite, whatever current
\* is, ends in DegenerateRange: the fixed message, no bar and no quotient;
\* no other call does, and one with high == low infinite ends in OutOfBounds.
C6_FiniteEqualIsDegenerate ==
    Drawn =>
      /\ (IsFinite(upper) /\ FEq(upper, lower)) => Degenerate(line)
      /\ line.kind = "DegenerateRange" => (IsFinite(upper) /\ FEq(upper, lower))
      /\ (~IsFinite(upper) /\ FEq(upper, lower)) => line.kind = "OutOfBounds"

\* a degenerate outcome for a current that is not even a number
C6_Witness ==
    /\ Drawn
    /\ upper = Fin(100)
    /\ lower = Fin(100)
    /\ IsNaN(current)
    /\ Degenerate(line)

\* the rounded percentage of a line, in hundredths
Hundredths(l) == l.formatted_percentage.h

\* C7: every rendered line has filled = floor(rounded percentage / 2) solid
\* blocks, 0 <= filled <= 50, and empty = 50 - filled light blocks, 50 in all.
C7_BarWidth ==
    (Drawn /\ line.kind = "Rendered") =>
      /\ line.bar = Hundredths(line) \div 200
      /\ line.bar \in 0..50
      /\ line.padding = 50 - line.bar
      /\ line.bar + line.padding = 50

\* a rendered line whose bar follows the rounded percentage (100.00, 50
\* blocks) where the raw quotient (below 100) would give 49
C7_Witness ==
    /\ Drawn
    /\ line.kind = "Rendered"
    /\ line.percentage.num < 100 * line.percentage.den
    /\ line.bar = 50
    /\ line.padding = 0

Call(u, l, c) == Drawn /\ upper = Fin(u) /\ lower = Fin(l) /\ current = Fin(c)

\* C8, as claimed: the line shows the percentage with two decimals.
C8_TwoDecimalText ==
    /\ Call(100, 0, 50) =>
          line.kind = "Rendered" /\ line.text \in {"50.00%", "     50.00%"}
    /\ Call(15000, 10000, 15000) =>
          line.kind = "Rendered" /\ line.text \in {"100.00%", "    100.00%"}

\* C8, amended: the line shows the rounded percentage in its shortest decimal
\* form (no trailing zeros), right-aligned in ten columns and followed by "%":
\* "50%" with 25 + 25 blocks and "100%" with 50 + 0 blocks; a percentage that
\* needs its decimals keeps them.
C8_ShortestText ==
    /\ Call(100, 0, 50) =>
          /\ line.kind = "Rendered"
          /\ line.text = "        50%"
          /\ line.bar = 25
          /\ line.padding = 25
    /\ Call(15000, 10000, 15000) =>
          /\ line.kind = "Rendered"
          /\ line.text = "       100%"
          /\ line.bar = 50
          /\ line.padding = 0
    /\ Call(3, 0, 1) =>
          /\ line.kind = "Rendered"
          /\ line.text = "     33.33%"
          /\ line.bar = 16
          /\ line.padding = 34
    /\ Call(8, 0, 1) => line.kind = "Rendered" /\ line.text = "      12.5%"

\* the second example of the claim, drawn
C8_Witness == Call(15000, 10000, 15000) /\ line.kind = "Rendered" /\ line.bar = 50

\* the rounded percentage is below 0 or above 100 (false of a NaN)
BelowOrAbove(x) ==
    \/ x.k = "inf"
    \/ x.k = "fin" /\ x.neg /\ x.h > 0
    \/ x.k = "fin" /\ ~x.neg /\ x.h > 10000

\* the rounded percentage lies in [0, 100] (false of a NaN)
Within(x) ==
    /\ x.k = "fin"
    /\ \/ x.h = 0
       \/ ~x.neg /\ x.h <= 10000

\* C9, as claimed: with high - low # 0 the outcome is OutOfBounds exactly
\* when the rounded percentage is < 0 or > 100.
C9_OutOfBoundsIffBelowOrAbove ==
    (Drawn /\ line.kind # "DegenerateRange") =>
        (line.kind = "OutOfBounds" <=> BelowOrAbove(line.formatted_percentage))

\* the quotient of a line rounds to r hundredths, whichever way a tie falls
RoundsTo(l, r) ==
    /\ l.percentage.k = "ratio"
    /\ r > 0 => ~l.percentage.neg
    /\ \A tie \in Ties : RoundHundredths(l.percentage.num, l.percentage.den, tie) = r

\* C9, amended: with high - low # 0 the percentage is rounded to two decimals
\* first and the rounded value is checked: the outcome is OutOfBounds (the
\* fixed message, no bar) exactly when the rounded percentage is not within
\* [0, 100], which a NaN percentage is not either, and Rendered otherwise; a
\* quotient that rounds to 100.00 is drawn with 50 blocks, and one that
\* rounds to 0.00 with none.
C9_OutOfBoundsIffNotWithin ==
    (Drawn /\ line.kind # "DegenerateRange") =>
      /\ line.kind \in {"OutOfBounds", "Rendered"}
      /\ line.kind = "OutOfBounds" <=> ~Within(line.formatted_percentage)
      /\ line.kind = "OutOfBounds" =>
            /\ line.message = "Current value is not within the specified range."
            /\ "bar" \notin DOMAIN line
      /\ RoundsTo(line, 10000) => (line.kind = "Rendered" /\ line.bar = 50)
      /\ RoundsTo(line, 0) => (line.kind = "Rendered" /\ line.bar = 0)

\* a quotient above 100 (100.004) that rounds to 100.00 and is drawn
C9_Witness ==
    /\ Drawn
    /\ line.kind = "Rendered"
    /\ line.percentage.num > 100 * line.percentage.den
    /\ line.bar = 50

(***************************** properties: main ****************************)
Outcomes == {"Error", "DegenerateRange", "OutOfBounds", "Rendered"}

\* the run ended on the failure of get_coins: one error line, no asset touched
ListFailed ==
    /\ coin_list = <<>>
    /\ out = <<error_line("", "get_coins")>>
    /\ idx = 0

\* the lines printed so far are those of the first assets of the list, one
\* each, in list order
InListOrder ==
    /\ Len(out) <= Len(coin_list)
    /\ \A j \in 1..Len(out) :
          out[j].symbol = coin_list[j] /\ out[j].kind \in Outcomes

DriverInv ==
    \/ pc = "get_coins" /\ out = <<>>
    \/ pc = "done" /\ ListFailed
    \/ /\ pc = "done"
       /\ InListOrder
       /\ Len(out) = Len(coin_list)
    \/ /\ pc \in {"for", "get_coin_data", "get_coin_info", "match_coin_info"}
       /\ InListOrder
       /\ Len(out) = idx - 1

\* a step prints at most one line, after the lines already printed
OneAtATime == out' = out \/ \E l \in {out'[Len(out')]} : out' = Append(out, l)

\* C10: main handles the assets of the fetched list one at a time, in list
\* order, each exactly once: a failed history fetch, a failed aggregation and
\* every outcome of draw_bar_graph print one line and the loop goes on to the
\* next asset, so the run ends with one line for every asset of the list; if
\* get_coins fails no asset is handled; and the run always ends.
C10_DriverLoop ==
    /\ []DriverInv
    /\ [][OneAtATime]_vars
    /\ <>(pc = "done")

\* a run that ended after an asset's failure was followed by a drawn bar
C10_Witness ==
    /\ pc = "done"
    /\ Len(coin_list) = 2
    /\ Len(out) = 2
    /\ out[1].kind = "Error"
    /\ out[2].kind = "Rendered"
====
